---- MODULE Spec2Model ----
(***************************************************************************)
(* Model of dependency-verifier.py: the gate that fails a build when a     *)
(* package-lock.json changed and the sibling yarn.lock did not follow.     *)
(*                                                                         *)
(* A Python str is a sequence of one-character strings, a list is a        *)
(* sequence, and a dict is the sequence of its items in insertion order.   *)
(***************************************************************************)
EXTENDS Naturals, Sequences, FiniteSets

VARIABLES
    changedFiles,   \* VerifyDependencies: the paths git reports as changed
    hunks,          \* the repository: changed lock path -> its changed lines
    idx,            \* VerifyDependencies: number of loop iterations started
    exit,           \* how the process ended, once it has
    yarnDiff,       \* GetUnmatchedDiffs: its first argument
    npmDiff,        \* GetUnmatchedDiffs: its second argument
    yarnDeps,       \* GetUnmatchedDiffs: local of line 53
    npmDeps,        \* GetUnmatchedDiffs: local of line 54
    outOfSyncDependencies,  \* GetUnmatchedDiffs: local of lines 55-61
    pc              \* the position of the running call

vars == <<changedFiles, hunks, idx, exit, yarnDiff, npmDiff, yarnDeps,
          npmDeps, outOfSyncDependencies, pc>>

---------------------------------------------------------------------------
(* Python str methods, on sequences of characters.                         *)

\* the characters str.strip() and str.lstrip() remove by default
Whitespace == {" ", "\t", "\n", "\r", "\f"}

Min(S) == CHOOSE x \in S : \A y \in S : x <= y

Max(S) == CHOOSE x \in S : \A y \in S : y <= x

RECURSIVE LStrip(_, _)
LStrip(s, chars) ==
    IF s # <<>> /\ Head(s) \in chars THEN LStrip(Tail(s), chars) ELSE s

RECURSIVE RStrip(_, _)
RStrip(s, chars) ==
    IF s # <<>> /\ s[Len(s)] \in chars
    THEN RStrip(SubSeq(s, 1, Len(s) - 1), chars)
    ELSE s

\* s.strip()
Strip(s) == RStrip(LStrip(s, Whitespace), Whitespace)

\* s.startswith(p)
StartsWith(s, p) == Len(p) <= Len(s) /\ SubSeq(s, 1, Len(p)) = p

\* the positions at which sub occurs in s
Occurrences(s, sub) ==
    IF Len(sub) > Len(s) THEN {}
    ELSE {i \in 1..(Len(s) - Len(sub) + 1) : SubSeq(s, i, i + Len(sub) - 1) = sub}

\* c in s, for a single character c
Contains(s, c) == \E i \in 1..Len(s) : s[i] = c

\* s.split(sep, 1): one piece when sep does not occur, else two
SplitOnce(s, sep) ==
    LET hits == Occurrences(s, sep) IN
    IF hits = {} THEN <<s>>
    ELSE LET i == Min(hits) IN
         <<SubSeq(s, 1, i - 1), SubSeq(s, i + Len(sep), Len(s))>>

\* s.rsplit(sep, 1): one piece when sep does not occur, else two
RSplitOnce(s, sep) ==
    LET hits == Occurrences(s, sep) IN
    IF hits = {} THEN <<s>>
    ELSE LET i == Max(hits) IN
         <<SubSeq(s, 1, i - 1), SubSeq(s, i + Len(sep), Len(s))>>

\* s.split(sep)
RECURSIVE Split(_, _)
Split(s, sep) ==
    LET parts == SplitOnce(s, sep) IN
    IF Len(parts) = 1 THEN parts ELSE <<parts[1]>> \o Split(parts[2], sep)

\* s.splitlines(): no piece for the empty text nor after a final newline
RECURSIVE SplitLines(_)
SplitLines(s) ==
    IF s = <<>> THEN <<>>
    ELSE LET parts == SplitOnce(s, <<"\n">>) IN
         IF Len(parts) = 1 THEN parts
         ELSE <<parts[1]>> \o SplitLines(parts[2])

\* "\n".join(lines)
RECURSIVE JoinLines(_)
JoinLines(lines) ==
    IF lines = <<>> THEN <<>>
    ELSE IF Len(lines) = 1 THEN lines[1]
    ELSE lines[1] \o <<"\n">> \o JoinLines(Tail(lines))

---------------------------------------------------------------------------
(* Python dict: items in insertion order; assigning to a key that is       *)
(* present replaces its value and keeps its position.                      *)

DictHas(d, k) == \E i \in 1..Len(d) : d[i].key = k

DictGet(d, k) == d[CHOOSE i \in 1..Len(d) : d[i].key = k].val

\* a dict that moves a key it is given again to the end
DictSet_MoveToEnd(d, k, v) ==
    Append(SelectSeq(d, LAMBDA item : item.key # k), [key |-> k, val |-> v])

\* a list of items in place of a dict: a key given again is held twice
DictSet_AlwaysAppend(d, k, v) == Append(d, [key |-> k, val |-> v])

DictSet(d, k, v) ==
    IF DictHas(d, k)
    THEN [i \in 1..Len(d) |-> IF d[i].key = k THEN [key |-> k, val |-> v] ELSE d[i]]
    ELSE Append(d, [key |-> k, val |-> v])

\* list(d): the keys in iteration order
DictKeys(d) == [i \in 1..Len(d) |-> d[i].key]

KeySet(d) == {d[i].key : i \in 1..Len(d)}

---------------------------------------------------------------------------
(* The literals of the program.                                            *)

npmLockFile ==
    <<"p", "a", "c", "k", "a", "g", "e", "-", "l", "o", "c", "k", ".", "j",
      "s", "o", "n">>

yarnLockFile ==
    <<"y", "a", "r", "n", ".", "l", "o", "c", "k">>

NpmPrefix ==
    <<"\"", "n", "o", "d", "e", "_", "m", "o", "d", "u", "l", "e", "s",
      "/">>

---------------------------------------------------------------------------
(* os.path and pathlib, on relative POSIX paths without symbolic links.    *)

\* os.path.basename(os.path.realpath(file)): the text after the last "/"
Basename(path) ==
    LET parts == RSplitOnce(path, <<"/">>) IN parts[Len(parts)]

\* os.path.dirname(path): the text before the last "/", "" when there is none
Dirname(path) ==
    LET parts == RSplitOnce(path, <<"/">>) IN
    IF Len(parts) = 1 THEN <<>> ELSE parts[1]

\* os.path.join(dir, name) for a relative name
PathJoin(dir, name) ==
    IF dir = <<>> THEN name
    ELSE IF dir[Len(dir)] = "/" THEN dir \o name
    ELSE dir \o <<"/">> \o name

\* line 66
YarnLockPath(packageLockPath) == PathJoin(Dirname(packageLockPath), yarnLockFile)

\* path in changedFiles
InList(path, files) == \E i \in 1..Len(files) : files[i] = path

---------------------------------------------------------------------------
(* GetNpmDependencyUpdates, lines 26-35.                                   *)

\* a key cut at the next "/" as well as at the next quote
NpmIdentifier_FirstSegment(line) ==
    SplitOnce(SplitOnce(SplitOnce(line, NpmPrefix)[2], <<"\"">>)[1], <<"/">>)[1]

\* line 34: the key, the text between the prefix and the next quote
NpmIdentifier(line) ==
    SplitOnce(SplitOnce(line, NpmPrefix)[2], <<"\"">>)[1]

\* lines 30-34: the loop over the lines
RECURSIVE NpmLoop(_, _)
NpmLoop(lines, dependencies) ==
    IF lines = <<>> THEN dependencies
    ELSE LET line == LStrip(Strip(Head(lines)), {"\t"}) IN
         NpmLoop(Tail(lines),
                 IF StartsWith(line, NpmPrefix)
                 THEN DictSet(dependencies, NpmIdentifier(line), <<>>)
                 ELSE dependencies)

GetNpmDependencyUpdates(packageLockDiffLines) ==
    NpmLoop(packageLockDiffLines, <<>>)

---------------------------------------------------------------------------
(* GetYarnDependencyUpdates, lines 37-48.  The result is a record: raised  *)
(* tells that line 46 raised IndexError, and then there is no dict.        *)

\* lines 45-47: one comma-separated piece
YarnPiece(dependencyAtVers, st) ==
    LET parts == RSplitOnce(dependencyAtVers, <<"@">>) IN
    IF Len(parts) < 2
    THEN [raised |-> TRUE, dependencies |-> <<>>]
    ELSE [raised |-> FALSE,
          dependencies |-> DictSet(st.dependencies, parts[1], <<>>)]

\* line 44: the loop over the pieces
RECURSIVE YarnPieces(_, _)
YarnPieces(depsAtVers, st) ==
    IF depsAtVers = <<>> \/ st.raised THEN st
    ELSE YarnPieces(Tail(depsAtVers), YarnPiece(Head(depsAtVers), st))

\* line 42: the lines that are parsed
IsYarnDeclaration(line) ==
    line = LStrip(line, Whitespace) /\ Contains(line, "@")

\* lines 41-47: the loop over the lines
RECURSIVE YarnLoop(_, _)
YarnLoop(lines, st) ==
    IF lines = <<>> \/ st.raised THEN st
    ELSE LET line == Head(lines) IN
         YarnLoop(Tail(lines),
                  IF IsYarnDeclaration(line)
                  THEN YarnPieces(Split(LStrip(line, {"\""}), <<",">>), st)
                  ELSE st)

GetYarnDependencyUpdates(yarnLockDiffLines) ==
    YarnLoop(yarnLockDiffLines, [raised |-> FALSE, dependencies |-> <<>>])

---------------------------------------------------------------------------
(* GetUnmatchedDiffs, lines 50-61.                                         *)

\* a comprehension that keeps the added lines only
IsChangedLine_AddedOnly(line) == StartsWith(line, <<"+">>)

\* lines 53-54: the condition of the comprehension
IsChangedLine(line) ==
    StartsWith(line, <<"+">>) \/ StartsWith(line, <<"-">>)

\* lines 53-54: [line[1:] for line in diff.splitlines() if ...]
ExtractDiffLines(diff) ==
    LET kept == SelectSeq(SplitLines(diff), IsChangedLine) IN
    [i \in 1..Len(kept) |-> Tail(kept[i])]

\* line 57
IsMatched(dep, yDeps, nDeps) ==
    DictHas(yDeps, dep) /\ DictGet(yDeps, dep) = DictGet(nDeps, dep)

\* lines 56-60: the loop over the keys of npmDeps
RECURSIVE UnmatchedLoop(_, _, _, _)
UnmatchedLoop(keys, yDeps, nDeps, out) ==
    IF keys = <<>> THEN out
    ELSE UnmatchedLoop(Tail(keys), yDeps, nDeps,
                       IF IsMatched(Head(keys), yDeps, nDeps)
                       THEN out
                       ELSE Append(out, Head(keys)))

\* a comparison in both directions
Reconcile_Symmetric(yDeps, nDeps) ==
    UnmatchedLoop(DictKeys(nDeps), yDeps, nDeps, <<>>)
        \o UnmatchedLoop(DictKeys(yDeps), nDeps, yDeps, <<>>)

\* lines 55-61
Reconcile(yDeps, nDeps) == UnmatchedLoop(DictKeys(nDeps), yDeps, nDeps, <<>>)

\* the whole call: the locals when it returns, or raised
GetUnmatchedDiffs(yDiff, nDiff) ==
    LET y == GetYarnDependencyUpdates(ExtractDiffLines(yDiff))
        n == GetNpmDependencyUpdates(ExtractDiffLines(nDiff))
    IN  IF y.raised
        THEN [raised |-> TRUE, yarnDeps |-> <<>>, npmDeps |-> <<>>,
              outOfSyncDependencies |-> <<>>]
        ELSE [raised |-> FALSE, yarnDeps |-> y.dependencies, npmDeps |-> n,
              outOfSyncDependencies |-> Reconcile(y.dependencies, n)]

---------------------------------------------------------------------------
(* git, as the program reads it through subprocess.getoutput.              *)

HdrDiffGit ==
    <<"d", "i", "f", "f", " ", "-", "-", "g", "i", "t", " ", "a", "/">>

HdrIndex ==
    <<"i", "n", "d", "e", "x", " ", "1", "a", "2", "b", "3", "c", "4", ".",
      ".", "5", "d", "6", "e", "7", "f", "8", " ", "1", "0", "0", "6", "4",
      "4">>

HdrOld ==
    <<"-", "-", "-", " ", "a", "/">>

HdrNew ==
    <<"+", "+", "+", " ", "b", "/">>

HdrHunk ==
    <<"@", "@", " ", "-", "1", ",", "3", " ", "+", "1", ",", "3", " ", "@",
      "@">>

\* lines 70-71: the output of `git diff origin/<target>.. -- <path>` for a
\* changed file: the file header, one hunk header, the lines of the hunk
GitDiff(path, hunkLines) ==
    JoinLines(<<HdrDiffGit \o path \o <<" ", "b", "/">> \o path,
                HdrIndex,
                HdrOld \o path,
                HdrNew \o path,
                HdrHunk>> \o hunkLines)

---------------------------------------------------------------------------
(* NpmChangesMirrorYarnChanges, lines 63-82, as a function of the changed  *)
(* files and of the repository.  An element of outOfDateYarnLocks is the   *)
(* bare path of line 78 or the pair of line 76.                            *)

\* a yarn.lock that did not change read as an empty diff
NpmChangesMirrorYarnChanges_MissingAsEmptyDiff(files, packageLockPath, repo) ==
    LET yarnLockPath == YarnLockPath(packageLockPath)
        yDiff == IF InList(yarnLockPath, files)
                 THEN GitDiff(yarnLockPath, repo[yarnLockPath])
                 ELSE <<>>
        nDiff == GitDiff(packageLockPath, repo[packageLockPath])
        r == GetUnmatchedDiffs(yDiff, nDiff)
    IN  [called |-> TRUE, yarnDiff |-> yDiff, npmDiff |-> nDiff,
         raised |-> r.raised, locals |-> r,
         outOfDateYarnLocks |->
             IF r.raised \/ r.outOfSyncDependencies = <<>>
             THEN <<>>
             ELSE <<[bare |-> FALSE, yarnLockPath |-> yarnLockPath,
                     diffSetComplement |-> r.outOfSyncDependencies]>>]

NpmChangesMirrorYarnChanges(files, packageLockPath, repo) ==
    LET yarnLockPath == YarnLockPath(packageLockPath) IN
    IF InList(yarnLockPath, files)
    THEN LET yDiff == GitDiff(yarnLockPath, repo[yarnLockPath])
             nDiff == GitDiff(packageLockPath, repo[packageLockPath])
             r == GetUnmatchedDiffs(yDiff, nDiff)
         IN  [called |-> TRUE, yarnDiff |-> yDiff, npmDiff |-> nDiff,
              raised |-> r.raised, locals |-> r,
              outOfDateYarnLocks |->
                  IF r.raised \/ r.outOfSyncDependencies = <<>>
                  THEN <<>>
                  ELSE <<[bare |-> FALSE, yarnLockPath |-> yarnLockPath,
                          diffSetComplement |-> r.outOfSyncDependencies]>>]
    ELSE [called |-> FALSE, yarnDiff |-> <<>>, npmDiff |-> <<>>,
          raised |-> FALSE, locals |-> <<>>,
          outOfDateYarnLocks |->
              <<[bare |-> TRUE, yarnLockPath |-> yarnLockPath,
                 diffSetComplement |-> <<>>]>>]

---------------------------------------------------------------------------
(* The inputs.                                                             *)

\* at most this many files are changed
MaxChanged == 4

\* at most this many lines in the two diffs of a direct call, together
MaxDiffLines == 3

DirA ==
    <<"a">>

DirScoped ==
    <<"@", "s">>

OtherFile ==
    <<"i", "n", "d", "e", "x", ".", "j", "s">>

\* the paths of the repository, in the order git lists them
RepoPaths ==
    <<PathJoin(DirScoped, npmLockFile), PathJoin(DirScoped, yarnLockFile),
      PathJoin(DirA, OtherFile), PathJoin(DirA, npmLockFile),
      PathJoin(DirA, yarnLockFile), npmLockFile, yarnLockFile>>

NpmLodashPkg ==
    <<"+", " ", " ", "\"", "n", "o", "d", "e", "_", "m", "o", "d", "u",
      "l", "e", "s", "/", "l", "o", "d", "a", "s", "h", "/", "p", "a", "c",
      "k", "a", "g", "e", ".", "j", "s", "o", "n", "\"", ":", " ", "{",
      ".", ".", ".", "}">>

NpmFooPkg ==
    <<"+", " ", " ", " ", " ", "\"", "n", "o", "d", "e", "_", "m", "o",
      "d", "u", "l", "e", "s", "/", "f", "o", "o", "/", "p", "a", "c", "k",
      "a", "g", "e", ".", "j", "s", "o", "n", "\"", ":", " ", "{">>

NpmFooRemoved ==
    <<"-", " ", " ", " ", " ", "\"", "n", "o", "d", "e", "_", "m", "o",
      "d", "u", "l", "e", "s", "/", "f", "o", "o", "\"", ":", " ", "{">>

NpmBarTabbed ==
    <<"+", "\t", "\"", "n", "o", "d", "e", "_", "m", "o", "d", "u", "l",
      "e", "s", "/", "b", "a", "r", "\"", ":", " ", "{">>

NpmVersion ==
    <<"+", " ", " ", " ", " ", " ", " ", "\"", "v", "e", "r", "s", "i",
      "o", "n", "\"", ":", " ", "\"", "1", ".", "2", ".", "3", "\"", ",">>

NpmBarContext ==
    <<" ", " ", " ", " ", " ", "\"", "n", "o", "d", "e", "_", "m", "o",
      "d", "u", "l", "e", "s", "/", "b", "a", "r", "\"", ":", " ", "{">>

YarnLodash ==
    <<"+", "l", "o", "d", "a", "s", "h", "@", "4", ".", "1", "7", ".", "2",
      "1", ":">>

YarnFooBar ==
    <<"+", "f", "o", "o", "@", "1", ".", "2", ".", "3", ",", " ", "b", "a",
      "r", "@", "2", ".", "0", ".", "0", ":">>

YarnBarQuoted ==
    <<"-", "\"", "b", "a", "r", "@", "^", "2", ".", "0", ".", "0", "\"",
      ":">>

YarnResolved ==
    <<"+", " ", " ", "r", "e", "s", "o", "l", "v", "e", "d", " ", "\"",
      "u", "/", "f", "o", "o", "@", "1", ".", "2", ".", "3", "\"">>

YarnNoAt ==
    <<"+", "f", "o", "o", "@", "1", ".", "0", ",", " ", "b", "a", "r", ":">>

YarnFooContext ==
    <<" ", "f", "o", "o", "@", "1", ".", "2", ".", "3", ":">>

\* lines a package-lock.json diff is made of
NpmPool ==
    {NpmLodashPkg, NpmFooPkg, NpmFooRemoved, NpmBarTabbed, NpmVersion,
     NpmBarContext}

\* lines a yarn.lock diff is made of
YarnPool ==
    {YarnLodash, YarnFooBar, YarnBarQuoted, YarnResolved, YarnNoAt,
     YarnFooContext}

\* the hunks of a changed package-lock.json
NpmFixtures ==
    {<<NpmFooRemoved>>, <<NpmVersion>>, <<NpmBarContext, NpmBarTabbed, NpmFooRemoved>>}

\* the hunks of a changed yarn.lock
YarnFixtures ==
    {<<YarnFooBar>>, <<YarnLodash, YarnResolved>>, <<YarnNoAt>>}

\* the paths of S, in the order of RepoPaths
RECURSIVE Listing(_, _)
Listing(i, S) ==
    IF i > Len(RepoPaths) THEN <<>>
    ELSE (IF i \in S THEN <<RepoPaths[i]>> ELSE <<>>) \o Listing(i + 1, S)

ChangedLists ==
    {Listing(1, S) : S \in {T \in SUBSET (1..Len(RepoPaths)) : Cardinality(T) <= MaxChanged}}

IsNpmLock(path) == Basename(path) = npmLockFile

IsYarnLock(path) == Basename(path) = yarnLockFile

LockPaths(files) ==
    {files[i] : i \in {j \in 1..Len(files) : IsNpmLock(files[j]) \/ IsYarnLock(files[j])}}

Running == [kind |-> "running", code |-> 0, outOfDateYarnLocks |-> <<>>]

---------------------------------------------------------------------------
(* The program: main and VerifyDependencies, lines 7-24.                   *)

\* after line 18: the changed files are listed
Init ==
    /\ changedFiles \in ChangedLists
    /\ hunks \in {h \in [LockPaths(changedFiles) -> NpmFixtures \cup YarnFixtures] :
                    \A p \in LockPaths(changedFiles) :
                        IF IsNpmLock(p) THEN h[p] \in NpmFixtures
                                        ELSE h[p] \in YarnFixtures}
    /\ idx = 0
    /\ exit = Running
    /\ yarnDiff = <<>>
    /\ npmDiff = <<>>
    /\ yarnDeps = <<>>
    /\ npmDeps = <<>>
    /\ outOfSyncDependencies = <<>>
    /\ pc = "L21"

\* lines 21-23: a changed file that is no package-lock.json
SkipFile ==
    /\ pc = "L21"
    /\ idx < Len(changedFiles)
    /\ ~IsNpmLock(changedFiles[idx + 1])
    /\ idx' = idx + 1
    /\ UNCHANGED <<changedFiles, hunks, exit, yarnDiff, npmDiff, yarnDeps,
                   npmDeps, outOfSyncDependencies, pc>>

\* lines 21-24 and 63-82: a changed package-lock.json
CheckPair ==
    /\ pc = "L21"
    /\ idx < Len(changedFiles)
    /\ IsNpmLock(changedFiles[idx + 1])
    /\ idx' = idx + 1
    /\ LET r == NpmChangesMirrorYarnChanges(changedFiles, changedFiles[idx + 1], hunks) IN
       /\ IF r.called
          THEN /\ yarnDiff' = r.yarnDiff
               /\ npmDiff' = r.npmDiff
               /\ yarnDeps' = r.locals.yarnDeps
               /\ npmDeps' = r.locals.npmDeps
               /\ outOfSyncDependencies' = r.locals.outOfSyncDependencies
          ELSE UNCHANGED <<yarnDiff, npmDiff, yarnDeps, npmDeps, outOfSyncDependencies>>
       /\ IF r.raised
          THEN /\ exit' = [kind |-> "IndexError", code |-> 1, outOfDateYarnLocks |-> <<>>]
               /\ pc' = "exited"
          ELSE IF r.outOfDateYarnLocks # <<>>
          THEN /\ exit' = [kind |-> "sys.exit", code |-> 1,
                           outOfDateYarnLocks |-> r.outOfDateYarnLocks]
               /\ pc' = "exited"
          ELSE UNCHANGED <<exit, pc>>
    /\ UNCHANGED <<changedFiles, hunks>>

\* line 13: every changed file was looked at
MainExit ==
    /\ pc = "L21"
    /\ idx = Len(changedFiles)
    /\ exit' = [kind |-> "sys.exit", code |-> 0, outOfDateYarnLocks |-> <<>>]
    /\ pc' = "exited"
    /\ UNCHANGED <<changedFiles, hunks, idx, yarnDiff, npmDiff, yarnDeps,
                   npmDeps, outOfSyncDependencies>>

Next == SkipFile \/ CheckPair \/ MainExit

Spec == Init /\ [][Next]_vars

---------------------------------------------------------------------------
(* A direct call of GetUnmatchedDiffs on two diff texts, lines 50-61.      *)

InitCore ==
    /\ changedFiles = <<>>
    /\ hunks = <<>>
    /\ idx = 0
    /\ exit = Running
    /\ \E ky \in 0..MaxDiffLines : \E kn \in 0..(MaxDiffLines - ky) :
         \E y \in [1..ky -> YarnPool] : \E n \in [1..kn -> NpmPool] :
            /\ yarnDiff = JoinLines(y)
            /\ npmDiff = JoinLines(n)
    /\ yarnDeps = <<>>
    /\ npmDeps = <<>>
    /\ outOfSyncDependencies = <<>>
    /\ pc = "L53"

\* line 53
Line53 ==
    /\ pc = "L53"
    /\ LET y == GetYarnDependencyUpdates(ExtractDiffLines(yarnDiff)) IN
       IF y.raised
       THEN /\ exit' = [kind |-> "IndexError", code |-> 1, outOfDateYarnLocks |-> <<>>]
            /\ pc' = "exited"
            /\ UNCHANGED yarnDeps
       ELSE /\ yarnDeps' = y.dependencies
            /\ pc' = "L54"
            /\ UNCHANGED exit
    /\ UNCHANGED <<changedFiles, hunks, idx, yarnDiff, npmDiff, npmDeps,
                   outOfSyncDependencies>>

\* line 54
Line54 ==
    /\ pc = "L54"
    /\ npmDeps' = GetNpmDependencyUpdates(ExtractDiffLines(npmDiff))
    /\ pc' = "L55"
    /\ UNCHANGED <<changedFiles, hunks, idx, exit, yarnDiff, npmDiff, yarnDeps,
                   outOfSyncDependencies>>

\* lines 55-61
Lines55to61 ==
    /\ pc = "L55"
    /\ outOfSyncDependencies' = Reconcile(yarnDeps, npmDeps)
    /\ pc' = "returned"
    /\ UNCHANGED <<changedFiles, hunks, idx, exit, yarnDiff, npmDiff, yarnDeps,
                   npmDeps>>

NextCore == Line53 \/ Line54 \/ Lines55to61

SpecCore == InitCore /\ [][NextCore]_vars

---------------------------------------------------------------------------
(* The properties.                                                         *)

Id_foo ==
    <<"f", "o", "o">>

Id_bar ==
    <<"b", "a", "r">>

Id_fooPkg ==
    <<"f", "o", "o", "/", "p", "a", "c", "k", "a", "g", "e", ".", "j", "s",
      "o", "n">>

Id_lodashPkg ==
    <<"l", "o", "d", "a", "s", "h", "/", "p", "a", "c", "k", "a", "g", "e",
      ".", "j", "s", "o", "n">>

\* the elements of a list
Elems(seq) == {seq[i] : i \in 1..Len(seq)}

\* how often x is in a list
Count(seq, x) == Cardinality({i \in 1..Len(seq) : seq[i] = x})

\* the path of the yarn.lock next to a package-lock.json: the same text with
\* the file name replaced
Sibling(path) == SubSeq(path, 1, Len(path) - Len(npmLockFile)) \o yarnLockFile

\* the files the loop has looked at whose yarn.lock did not change
MissingSiblings ==
    {i \in 1..idx : IsNpmLock(changedFiles[i])
                    /\ Sibling(changedFiles[i]) \notin Elems(changedFiles)}

\* C1: a package-lock.json whose sibling yarn.lock is not among the changed
\* files ends the process with a non-zero exit that names that yarn.lock,
\* whatever the package-lock.json diff holds.
C1_MissingSiblingFails ==
    \A i \in MissingSiblings :
        /\ pc = "exited"
        /\ exit.kind = "sys.exit"
        /\ exit.code # 0
        /\ exit.outOfDateYarnLocks =
               <<[bare |-> TRUE, yarnLockPath |-> Sibling(changedFiles[i]),
                  diffSetComplement |-> <<>>]>>

\* C1 happens: the yarn.lock is missing and the package-lock.json diff has no
\* dependency line at all
C1_Witness ==
    /\ pc = "exited"
    /\ \E i \in MissingSiblings : hunks[changedFiles[i]] = <<NpmVersion>>

\* the package-lock.json files of the change set whose pair is not in sync
FailingPairs ==
    {i \in 1..Len(changedFiles) :
        /\ IsNpmLock(changedFiles[i])
        /\ NpmChangesMirrorYarnChanges(changedFiles, changedFiles[i], hunks)
               .outOfDateYarnLocks # <<>>}

\* no pair of the change set makes the yarn parser raise
NoPairRaises ==
    \A i \in 1..Len(changedFiles) :
        IsNpmLock(changedFiles[i])
            => ~NpmChangesMirrorYarnChanges(changedFiles, changedFiles[i], hunks).raised

\* C2: the verdict holds one record for each package-lock.json whose yarn.lock
\* is missing or out of sync, not only for the first one.
C2_EveryFailingPairReported ==
    (pc = "exited" /\ exit.kind = "sys.exit" /\ NoPairRaises)
        => Len(exit.outOfDateYarnLocks) = Cardinality(FailingPairs)

\* the lines of the hunks of a diff that git printed: what follows the file
\* header and the hunk header
HunkText(diff) ==
    LET lines == SplitLines(diff) IN JoinLines(SubSeq(lines, 6, Len(lines)))

\* C9: the file-header lines of the raw git diff add no identifier to either
\* set: each set is the one parsed from the lines of the hunks alone.
C9_HeadersAddNothing ==
    (yarnDiff # <<>> /\ exit.kind # "IndexError")
        => /\ KeySet(yarnDeps) =
                  KeySet(GetYarnDependencyUpdates(
                             ExtractDiffLines(HunkText(yarnDiff))).dependencies)
           /\ KeySet(npmDeps) =
                  KeySet(GetNpmDependencyUpdates(ExtractDiffLines(HunkText(npmDiff))))

\* C3, as stated: scenario 1 returns the empty list.
C3_Scenario1InSync ==
    (pc = "returned" /\ npmDiff = NpmLodashPkg /\ yarnDiff = YarnLodash)
        => outOfSyncDependencies = <<>>

\* C3, amended: in scenario 1 the key of the package-lock.json line is the text
\* up to the next quote, lodash/package.json, which lodash in the yarn.lock
\* diff does not match: the list returned is that one identifier.
C3_Scenario1OutOfSync ==
    (pc = "returned" /\ npmDiff = NpmLodashPkg /\ yarnDiff = YarnLodash)
        => outOfSyncDependencies = <<Id_lodashPkg>>

\* C3 happens: scenario 1 was run
C3_Witness ==
    pc = "returned" /\ npmDiff = NpmLodashPkg /\ yarnDiff = YarnLodash

\* C4: the list returned holds exactly the identifiers of the package-lock set
\* that are no key of the yarn set, so it is empty when the yarn set is a
\* superset.
C4_OneDirectional ==
    pc = "returned"
        => /\ Elems(outOfSyncDependencies) = KeySet(npmDeps) \ KeySet(yarnDeps)
           /\ (KeySet(npmDeps) \subseteq KeySet(yarnDeps)
                   => outOfSyncDependencies = <<>>)

\* C4 happens: the yarn set is a strict superset of a package-lock set that is
\* not empty
C4_Witness ==
    /\ pc = "returned"
    /\ KeySet(npmDeps) # {}
    /\ KeySet(npmDeps) \subseteq KeySet(yarnDeps)
    /\ KeySet(yarnDeps) # KeySet(npmDeps)

\* the identifiers of the added and removed lines of a package-lock.json diff,
\* line by line
RECURSIVE Mentions(_)
Mentions(lines) ==
    IF lines = <<>> THEN <<>>
    ELSE LET line == Strip(Head(lines)) IN
         (IF StartsWith(line, NpmPrefix) THEN <<NpmIdentifier(line)>> ELSE <<>>)
             \o Mentions(Tail(lines))

NpmMentions == Mentions(ExtractDiffLines(npmDiff))

FirstMention(dep) == Min({i \in 1..Len(NpmMentions) : NpmMentions[i] = dep})

\* C5: the list returned names its identifiers in the order of their first
\* occurrence in the package-lock.json diff, each at most once.
C5_FirstOccurrenceOrder ==
    pc = "returned"
        => /\ Elems(outOfSyncDependencies) \subseteq Elems(NpmMentions)
           /\ \A i, j \in 1..Len(outOfSyncDependencies) :
                  i < j => FirstMention(outOfSyncDependencies[i])
                               < FirstMention(outOfSyncDependencies[j])

\* C5 happens: an identifier recurs after another one, and both are reported
C5_Witness ==
    /\ pc = "returned"
    /\ NpmMentions = <<Id_foo, Id_bar, Id_foo>>
    /\ outOfSyncDependencies = <<Id_foo, Id_bar>>

\* the package-lock.json diff has the line of node_modules/foo/package.json
HasFooPkgLine == NpmFooPkg \in Elems(SplitLines(npmDiff))

\* C6, as stated: the set parsed from a diff with the line of
\* node_modules/foo/package.json holds foo, once.
C6_ExtractsFoo ==
    (pc \in {"L55", "returned"} /\ HasFooPkgLine)
        => Count(DictKeys(npmDeps), Id_foo) = 1

\* C6, amended: the set parsed from a diff with the line of
\* node_modules/foo/package.json holds foo/package.json, the text up to the
\* next quote, once however often the line recurs.
C6_ExtractsFooPkgOnce ==
    (pc \in {"L55", "returned"} /\ HasFooPkgLine)
        => Count(DictKeys(npmDeps), Id_fooPkg) = 1

\* C6 happens: the line recurs
C6_Witness ==
    /\ pc = "L55"
    /\ Count(SplitLines(npmDiff), NpmFooPkg) >= 2

\* C7: a yarn.lock line with several specifiers gives the bare name of each
\* of them as a key.
C7_EverySpecifierBareName ==
    (pc \in {"L54", "L55", "returned"} /\ YarnFooBar \in Elems(SplitLines(yarnDiff)))
        => /\ DictHas(yarnDeps, Id_foo)
           /\ DictHas(yarnDeps, Id_bar)

\* C8: no pair of diff texts makes GetUnmatchedDiffs raise.
C8_NeverRaises == exit.kind # "IndexError"

\* a diff line with its marker exchanged
FlipLine(line) ==
    IF StartsWith(line, <<"+">>) THEN <<"-">> \o Tail(line)
    ELSE IF StartsWith(line, <<"-">>) THEN <<"+">> \o Tail(line)
    ELSE line

\* a diff with the markers of the lines of S exchanged
FlipLines(diff, S) ==
    LET lines == SplitLines(diff) IN
    JoinLines([i \in 1..Len(lines) |->
                   IF i \in S THEN FlipLine(lines[i]) ELSE lines[i]])

LineNumbers(diff) == 1..Len(SplitLines(diff))

\* C10: exchanging + and - on any lines of either diff changes nothing of
\* what GetUnmatchedDiffs returns.
C10_MarkerBlind ==
    pc \in {"returned", "exited"}
        => \A Sy \in SUBSET LineNumbers(yarnDiff) :
           \A Sn \in SUBSET LineNumbers(npmDiff) :
               LET r == GetUnmatchedDiffs(FlipLines(yarnDiff, Sy),
                                          FlipLines(npmDiff, Sn))
               IN  /\ r.raised = (pc = "exited")
                   /\ ~r.raised
                          => r.outOfSyncDependencies = outOfSyncDependencies

\* C10 happens: a dependency removed in the package-lock.json diff is matched
\* by the same identifier added in the yarn.lock diff
C10_Witness ==
    /\ pc = "returned"
    /\ npmDiff = NpmFooRemoved
    /\ yarnDiff = YarnFooBar
    /\ outOfSyncDependencies = <<>>

====
